---- MODULE Spec2Model ----
(***************************************************************************)
(* Token-gated vote contract (token-gated-vote-contract/src/lib.rs).       *)
(*                                                                         *)
(* The contract's storage is modelled entry by entry: instance storage     *)
(* (Admin, Token) and persistent storage (Proposal(id), Proposals,         *)
(* Votes(user)), each persistent entry with the ledger until which it      *)
(* lives.  Every entry point is an operator from the environment it is     *)
(* called in to the environment it leaves and the value it returns,        *)
(* written statement by statement as in the source; an action applies it   *)
(* to inputs drawn from small sets.                                        *)
(*                                                                         *)
(* Time: the ledger timestamp is the only clock.  extend_ttl counts        *)
(* ledgers; the model closes one ledger per second, the unit the source    *)
(* gives its TTL constants ("in ledger seconds", lib.rs:18) and the        *)
(* fastest rate a ledger with strictly increasing close times allows.      *)
(* Timestamps stay far below 2^31, where `as u32` (lib.rs:97) keeps the    *)
(* value and the u32 addition cannot overflow.                             *)
(***************************************************************************)
EXTENDS Integers, Sequences, FiniteSets, TLC

VARIABLES
    instance,     \* instance storage: key -> value (Admin, Token)
    persistent,   \* persistent storage: key -> value
    live_until,   \* persistent storage: key -> last ledger the entry lives
    timestamp,    \* env.ledger().timestamp()
    accepted      \* history: <<user, id>> -> number of vote calls that returned Ok
                  \* on the proposal stored under id

vars == <<instance, persistent, live_until, timestamp, accepted>>

----------------------------------------------------------------------------
(* Constants of the source *)

VOTE_FOR == "FOR"
VOTE_AGAINST == "AGAINST"
VOTE_ABSTAIN == "ABSTAIN"

MAX_PROPOSAL_DURATION == 1292000
MIN_PROPOSAL_DURATION == 432000

PROPOSALS_TTL_EXTENSION == 2100000
PROPOSAL_TTL_BUFFER == 604800
VOTE_TTL_EXTENSION == 1600000

(* TokenGatedVoteContractDataKey *)
Admin == <<"Admin">>
Token == <<"Token">>
Proposal(id) == <<"Proposal", id>>
Proposals == <<"Proposals">>
Votes(user) == <<"Votes", user>>

(* TokenGatedVoteProposalStatus *)
Pending == "Pending"
Active == "Active"
Ended == "Ended"

(* What a call returns: Ok, one of TokenGatedVoteContractErrors, or the     *)
(* host's abort of a call whose require_auth fails (no contract error).    *)
Ok == "Ok"
ContractNotInitialized == "ContractNotInitialized"
ContractAlreadyInitialized == "ContractAlreadyInitialized"
ProposalAlreadyExists == "ProposalAlreadyExists"
ProposalNotFound == "ProposalNotFound"
UserAlreadyVoted == "UserAlreadyVoted"
UserCannotVote == "UserCannotVote"
VotingNotActive == "VotingNotActive"
InvalidChoice == "InvalidChoice"
StartTimeAfterEnd == "StartTimeAfterEnd"
StartTimeInPast == "StartTimeInPast"
DurationTooLong == "DurationTooLong"
DurationTooShort == "DurationTooShort"
AuthAbort == "AuthAbort"

(* TokenGatedVoteContractErrors *)
TokenGatedVoteContractErrors ==
    {ContractNotInitialized, ContractAlreadyInitialized, ProposalAlreadyExists,
     ProposalNotFound, UserAlreadyVoted, UserCannotVote, VotingNotActive,
     InvalidChoice, StartTimeAfterEnd, StartTimeInPast, DurationTooLong,
     DurationTooShort}

----------------------------------------------------------------------------
(* Bounds and input sets *)

\* The ledger timestamp of the first state (test.rs: setup_test_env).
GenesisTime == 1000000

\* At most MaxVotes vote calls are let succeed in one run.
MaxVotes == 2

Address == {"alice", "bob"}
TokenAddress == {"tokenA", "tokenB"}
Ids == {"PROP001", "PROP002"}
Descriptions == {"d1", "d2"}
Choices == {VOTE_FOR, VOTE_AGAINST, VOTE_ABSTAIN, "MAYBE"}
Balances == {-1, 0, 1, 500}

\* end_time - start_time of a create_proposal call
Durations ==
    {-1, 0, MIN_PROPOSAL_DURATION - 1, MIN_PROPOSAL_DURATION,
     MAX_PROPOSAL_DURATION, MAX_PROPOSAL_DURATION + 1}

\* start_time - now of a create_proposal call
StartOffsets == {-1, 0, 1}

\* The properties below range over all of the sets above in every state
\* reached.  The calls the state machine itself makes are these:
\*   __constructor with the admin and the token of Deployments, so that any
\*     other admin stored is there by transfer_admin;
\*   create_proposal at the timestamps of CreateTimes, with a draft <<id,
\*     description, start_time - now, end_time - start_time>> of Drafts:
\*     PROP001 over the shortest window from now, PROP002 over the longest
\*     window from the next second, and one draft for each timing error;
\*   vote with a ballot <<user, choice, token balance>> of Ballots: alice
\*     votes for or against, bob against or abstains, and each makes the
\*     calls that are refused for the choice or for the balance.
Deployments == {<<"alice", "tokenA">>}
CreateTimes == {GenesisTime}
Drafts ==
    {<<"PROP001", "d1", 0, MIN_PROPOSAL_DURATION>>,
     <<"PROP002", "d2", 1, MAX_PROPOSAL_DURATION>>,
     <<"PROP001", "d1", 1, 0>>,
     <<"PROP002", "d2", -1, MIN_PROPOSAL_DURATION>>,
     <<"PROP001", "d1", 0, MAX_PROPOSAL_DURATION + 1>>,
     <<"PROP002", "d2", 0, MIN_PROPOSAL_DURATION - 1>>}
Ballots ==
    {<<"alice", VOTE_FOR, 1>>, <<"alice", VOTE_AGAINST, 500>>,
     <<"bob", VOTE_AGAINST, 1>>, <<"bob", VOTE_ABSTAIN, 500>>,
     <<"alice", "MAYBE", 1>>, <<"bob", "MAYBE", 500>>,
     <<"alice", VOTE_FOR, 0>>, <<"bob", VOTE_AGAINST, -1>>}

----------------------------------------------------------------------------
(* Host: storage and authorization *)

Max(a, b) == IF a >= b THEN a ELSE b

\* storage().has(key)
has(store, key) == key \in DOMAIN store

\* a map with key bound to val, all other bindings kept
put(store, key, val) ==
    [k \in DOMAIN store \cup {key} |-> IF k = key THEN val ELSE store[k]]

\* storage().instance().set(key, val)
instance_set(env, key, val) ==
    [env EXCEPT !.instance = put(env.instance, key, val)]

\* storage().persistent().set(key, val): a new entry starts with no
\* lifetime beyond the current ledger, an existing one keeps its own.
persistent_set(env, key, val) ==
    [env EXCEPT
        !.persistent = put(env.persistent, key, val),
        !.live_until =
            IF has(env.live_until, key) THEN env.live_until
            ELSE put(env.live_until, key, env.timestamp)]

\* storage().persistent().extend_ttl(key, threshold, extend_to): when the
\* entry has at most `threshold` ledgers left and `extend_to` ledgers from
\* now is later than its end, it lives until then.
extend_ttl(env, key, threshold, extend_to) ==
    IF /\ has(env.live_until, key)
       /\ env.live_until[key] - env.timestamp <= threshold
       /\ env.timestamp + extend_to > env.live_until[key]
    THEN [env EXCEPT !.live_until = put(env.live_until, key, env.timestamp + extend_to)]
    ELSE env

\* Mutant of require_auth: any caller passes.
require_auth_anyone(signer, address) == TRUE

\* Mutant of storage_get: a read renews the lifetime of the entry it reads.
storage_get_renews(env, key) ==
    IF has(env.live_until, key)
    THEN [env EXCEPT !.live_until =
             put(env.live_until, key,
                 Max(env.live_until[key], env.timestamp + PROPOSALS_TTL_EXTENSION))]
    ELSE env

\* storage().persistent().get(key), storage().instance().get(key): the
\* storage a read leaves; the entry and its lifetime are as they were
storage_get(env, key) == env

\* address.require_auth(): passes when the call carries that address's
\* authorization; `signer` is the address that authorized the call.
require_auth(signer, address) == signer = address

\* what a call hands back: the value it returns and the storage it leaves
Return(err, env) == [err |-> err, env |-> env]

----------------------------------------------------------------------------
(* Helper functions of the contract *)

\* `x as u32`: the low 32 bits of x, put together from 16-bit halves
as_u32(x) == (x % 65536) + 65536 * ((x \div 65536) % 65536)

calculate_proposal_ttl(env, proposal_end_time) ==
    LET ledger_time == env.timestamp
        proposal_duration ==
            IF proposal_end_time > ledger_time
            THEN proposal_end_time - ledger_time
            ELSE 0
        min_ttl == as_u32(proposal_duration) + PROPOSAL_TTL_BUFFER
    IN  Max(min_ttl, PROPOSALS_TTL_EXTENSION)

\* Mutant of compute_proposal_status: the proposal has ended at its end_time.
compute_proposal_status_ends_early(ledger_time, proposal) ==
    IF ledger_time < proposal.start_time THEN Pending
    ELSE IF ledger_time < proposal.end_time THEN Active
    ELSE Ended

compute_proposal_status(ledger_time, proposal) ==
    IF ledger_time < proposal.start_time THEN Pending
    ELSE IF ledger_time <= proposal.end_time THEN Active
    ELSE Ended

\* Mutant of validate_proposal_times: a start at the ledger time is in the past.
validate_proposal_times_strict(ledger_time, start_time, end_time) ==
    IF start_time >= end_time THEN StartTimeAfterEnd
    ELSE IF start_time <= ledger_time THEN StartTimeInPast
    ELSE LET duration == end_time - start_time IN
         IF duration > MAX_PROPOSAL_DURATION THEN DurationTooLong
         ELSE IF duration < MIN_PROPOSAL_DURATION THEN DurationTooShort
         ELSE Ok

\* Mutant of validate_proposal_times: the start is compared with the ledger
\* time before it is compared with the end.
validate_proposal_times_past_first(ledger_time, start_time, end_time) ==
    IF start_time < ledger_time THEN StartTimeInPast
    ELSE IF start_time >= end_time THEN StartTimeAfterEnd
    ELSE LET duration == end_time - start_time IN
         IF duration > MAX_PROPOSAL_DURATION THEN DurationTooLong
         ELSE IF duration < MIN_PROPOSAL_DURATION THEN DurationTooShort
         ELSE Ok

validate_proposal_times(ledger_time, start_time, end_time) ==
    IF start_time >= end_time THEN StartTimeAfterEnd
    ELSE IF start_time < ledger_time THEN StartTimeInPast
    ELSE LET duration == end_time - start_time IN
         IF duration > MAX_PROPOSAL_DURATION THEN DurationTooLong
         ELSE IF duration < MIN_PROPOSAL_DURATION THEN DurationTooShort
         ELSE Ok

----------------------------------------------------------------------------
(* Write functions *)

\* Mutant of __constructor: the admin is written before the check.
constructor_writes_first(env, admin, token) ==
    LET env1 == instance_set(env, Admin, admin) IN
    IF has(env.instance, Admin)
    THEN Return(ContractAlreadyInitialized, env1)
    ELSE Return(Ok, instance_set(env1, Token, token))

\* Mutant of __constructor: no check, every call initializes.
constructor_unchecked(env, admin, token) ==
    Return(Ok, instance_set(instance_set(env, Admin, admin), Token, token))

__constructor(env, admin, token) ==
    IF has(env.instance, Admin)
    THEN Return(ContractAlreadyInitialized, env)
    ELSE Return(Ok, instance_set(instance_set(env, Admin, admin), Token, token))

\* lib.rs:198-202: the stored index, or an empty one
proposals_of(env) ==
    IF has(env.persistent, Proposals) THEN env.persistent[Proposals] ELSE << >>

\* lib.rs:240-244: the user's stored map, or an empty one
votes_of(env, user) ==
    IF has(env.persistent, Votes(user)) THEN env.persistent[Votes(user)] ELSE << >>

\* Mutant of store_proposal: the new record starts with one vote for.
store_proposal_counts_one(env, id, description, start_time, end_time) ==
    LET proposal_key == Proposal(id)
        proposal == [description |-> description,
                     start_time |-> start_time,
                     end_time |-> end_time,
                     total_for |-> 1,
                     total_against |-> 0,
                     total_abstain |-> 0]
        env1 == persistent_set(env, proposal_key, proposal)
        proposal_ttl == calculate_proposal_ttl(env1, end_time)
        env2 == extend_ttl(env1, proposal_key, proposal_ttl, proposal_ttl)
        proposals == proposals_of(env2)
        env3 == persistent_set(env2, Proposals, Append(proposals, id))
    IN  extend_ttl(env3, Proposals, PROPOSALS_TTL_EXTENSION, PROPOSALS_TTL_EXTENSION)

\* lib.rs:183-212: the new record, its lifetime, the index and its lifetime
store_proposal(env, id, description, start_time, end_time) ==
    LET proposal_key == Proposal(id)
        proposal == [description |-> description,
                     start_time |-> start_time,
                     end_time |-> end_time,
                     total_for |-> 0,
                     total_against |-> 0,
                     total_abstain |-> 0]
        env1 == persistent_set(env, proposal_key, proposal)
        proposal_ttl == calculate_proposal_ttl(env1, end_time)
        env2 == extend_ttl(env1, proposal_key, proposal_ttl, proposal_ttl)
        proposals == proposals_of(env2)
        env3 == persistent_set(env2, Proposals, Append(proposals, id))
    IN  extend_ttl(env3, Proposals, PROPOSALS_TTL_EXTENSION, PROPOSALS_TTL_EXTENSION)

\* Mutant of create_proposal: a stored id is not looked for.
create_proposal_overwrites(env, signer, id, description, start_time, end_time) ==
    IF ~has(env.instance, Admin) THEN Return(ContractNotInitialized, env)
    ELSE IF ~require_auth(signer, env.instance[Admin]) THEN Return(AuthAbort, env)
    ELSE LET checked == validate_proposal_times(env.timestamp, start_time, end_time) IN
         IF checked # Ok THEN Return(checked, env)
         ELSE Return(Ok, store_proposal(env, id, description, start_time, end_time))

create_proposal(env, signer, id, description, start_time, end_time) ==
    IF ~has(env.instance, Admin) THEN Return(ContractNotInitialized, env)
    ELSE IF ~require_auth(signer, env.instance[Admin]) THEN Return(AuthAbort, env)
    ELSE LET checked == validate_proposal_times(env.timestamp, start_time, end_time) IN
         IF checked # Ok THEN Return(checked, env)
         ELSE IF has(env.persistent, Proposal(id))
         THEN Return(ProposalAlreadyExists, env)
         ELSE Return(Ok, store_proposal(env, id, description, start_time, end_time))

\* Mutant of voting_not_active: the window is open at its end.
voting_not_active_at_end(ledger_time, proposal) ==
    ledger_time < proposal.start_time \/ ledger_time >= proposal.end_time

\* Mutant of voting_not_active: the window never closes.
voting_not_active_never_ends(ledger_time, proposal) ==
    ledger_time < proposal.start_time

\* lib.rs:235: the ledger time lies outside [start_time, end_time]
voting_not_active(ledger_time, proposal) ==
    ledger_time < proposal.start_time \/ ledger_time > proposal.end_time

\* Mutant of cannot_vote: a zero balance is let through.
cannot_vote_below_zero(token_balance) == token_balance < 0

\* lib.rs:257: the balance that bars a user from voting
cannot_vote(token_balance) == token_balance <= 0

\* i128::saturating_add(x, 1); i128::MAX lies beyond every tally reached here
saturating_add(x, y) == x + y

\* Mutant of count_choice: any other choice counts as an abstention.
count_choice_else_abstain(proposal, choice) ==
    IF choice = VOTE_FOR
    THEN [err |-> Ok,
          proposal |-> [proposal EXCEPT !.total_for = saturating_add(@, 1)]]
    ELSE IF choice = VOTE_AGAINST
    THEN [err |-> Ok,
          proposal |-> [proposal EXCEPT !.total_against = saturating_add(@, 1)]]
    ELSE [err |-> Ok,
          proposal |-> [proposal EXCEPT !.total_abstain = saturating_add(@, 1)]]

\* Mutant of count_choice: a vote AGAINST is taken from total_for.
count_choice_takes_from_for(proposal, choice) ==
    IF choice = VOTE_FOR
    THEN [err |-> Ok,
          proposal |-> [proposal EXCEPT !.total_for = saturating_add(@, 1)]]
    ELSE IF choice = VOTE_AGAINST
    THEN [err |-> Ok,
          proposal |-> [proposal EXCEPT !.total_against = saturating_add(@, 1),
                                        !.total_for = @ - 1]]
    ELSE IF choice = VOTE_ABSTAIN
    THEN [err |-> Ok,
          proposal |-> [proposal EXCEPT !.total_abstain = saturating_add(@, 1)]]
    ELSE [err |-> InvalidChoice, proposal |-> proposal]

\* Mutant of count_choice: a vote AGAINST is added to total_for.
count_choice_against_as_for(proposal, choice) ==
    IF choice = VOTE_FOR \/ choice = VOTE_AGAINST
    THEN [err |-> Ok,
          proposal |-> [proposal EXCEPT !.total_for = saturating_add(@, 1)]]
    ELSE IF choice = VOTE_ABSTAIN
    THEN [err |-> Ok,
          proposal |-> [proposal EXCEPT !.total_abstain = saturating_add(@, 1)]]
    ELSE [err |-> InvalidChoice, proposal |-> proposal]

\* lib.rs:261-269: the tally the choice names goes up by one; any other
\* choice is an error and the proposal is dropped.
count_choice(proposal, choice) ==
    IF choice = VOTE_FOR
    THEN [err |-> Ok,
          proposal |-> [proposal EXCEPT !.total_for = saturating_add(@, 1)]]
    ELSE IF choice = VOTE_AGAINST
    THEN [err |-> Ok,
          proposal |-> [proposal EXCEPT !.total_against = saturating_add(@, 1)]]
    ELSE IF choice = VOTE_ABSTAIN
    THEN [err |-> Ok,
          proposal |-> [proposal EXCEPT !.total_abstain = saturating_add(@, 1)]]
    ELSE [err |-> InvalidChoice, proposal |-> proposal]

\* Mutant of map_set: the id is not recorded.
map_set_forgets(votes, id) == votes

\* Map::set(id, true)
map_set(votes, id) == put(votes, id, TRUE)

\* Mutant of store_vote: the lifetime of the user's map is not extended.
store_vote_keeps_lifetime(env, user, id, proposal, votes) ==
    LET proposal_key == Proposal(id)
        votes_key == Votes(user)
        votes1 == map_set(votes, id)
        env1 == persistent_set(env, proposal_key, proposal)
        env2 == persistent_set(env1, votes_key, votes1)
        proposal_ttl == calculate_proposal_ttl(env2, proposal.end_time)
    IN  extend_ttl(env2, proposal_key, proposal_ttl, proposal_ttl)

\* lib.rs:271-283: the user's map gets the id, both entries are written
\* and both lifetimes extended
store_vote(env, user, id, proposal, votes) ==
    LET proposal_key == Proposal(id)
        votes_key == Votes(user)
        votes1 == map_set(votes, id)
        env1 == persistent_set(env, proposal_key, proposal)
        env2 == persistent_set(env1, votes_key, votes1)
        proposal_ttl == calculate_proposal_ttl(env2, proposal.end_time)
        env3 == extend_ttl(env2, proposal_key, proposal_ttl, proposal_ttl)
    IN  extend_ttl(env3, votes_key, VOTE_TTL_EXTENSION, VOTE_TTL_EXTENSION)

\* Mutant of vote: the balance is looked at before the user's record.
vote_balance_first(env, signer, user, id, choice, token_balance) ==
    IF ~require_auth(signer, user) THEN Return(AuthAbort, env)
    ELSE IF ~has(env.persistent, Proposal(id)) THEN Return(ProposalNotFound, env)
    ELSE LET proposal == env.persistent[Proposal(id)]
             ledger_time == env.timestamp
             votes == votes_of(env, user)
         IN
         IF voting_not_active(ledger_time, proposal) THEN Return(VotingNotActive, env)
         ELSE IF ~has(env.instance, Token) THEN Return(ContractNotInitialized, env)
         ELSE IF cannot_vote(token_balance) THEN Return(UserCannotVote, env)
         ELSE IF has(votes, id) THEN Return(UserAlreadyVoted, env)
         ELSE LET counted == count_choice(proposal, choice) IN
              IF counted.err # Ok THEN Return(counted.err, env)
              ELSE Return(Ok, store_vote(env, user, id, counted.proposal, votes))

\* token_balance is what TokenClient::balance(user) answers during the call
vote(env, signer, user, id, choice, token_balance) ==
    IF ~require_auth(signer, user) THEN Return(AuthAbort, env)
    ELSE IF ~has(env.persistent, Proposal(id)) THEN Return(ProposalNotFound, env)
    ELSE LET proposal == env.persistent[Proposal(id)]
             ledger_time == env.timestamp
             votes == votes_of(env, user)
         IN
         IF voting_not_active(ledger_time, proposal) THEN Return(VotingNotActive, env)
         ELSE IF has(votes, id) THEN Return(UserAlreadyVoted, env)
         ELSE IF ~has(env.instance, Token) THEN Return(ContractNotInitialized, env)
         ELSE IF cannot_vote(token_balance) THEN Return(UserCannotVote, env)
         ELSE LET counted == count_choice(proposal, choice) IN
              IF counted.err # Ok THEN Return(counted.err, env)
              ELSE Return(Ok, store_vote(env, user, id, counted.proposal, votes))

\* Mutant of transfer_admin: the new admin is stored under Token as well.
transfer_admin_rebinds_token(env, signer, new_admin) ==
    IF ~has(env.instance, Admin) THEN Return(ContractNotInitialized, env)
    ELSE IF ~require_auth(signer, env.instance[Admin]) THEN Return(AuthAbort, env)
    ELSE Return(Ok, instance_set(instance_set(env, Admin, new_admin),
                                 Token, new_admin))

\* Mutant of transfer_admin: the new admin is not stored.
transfer_admin_keeps(env, signer, new_admin) ==
    IF ~has(env.instance, Admin) THEN Return(ContractNotInitialized, env)
    ELSE IF ~require_auth(signer, env.instance[Admin]) THEN Return(AuthAbort, env)
    ELSE Return(Ok, env)

transfer_admin(env, signer, new_admin) ==
    IF ~has(env.instance, Admin) THEN Return(ContractNotInitialized, env)
    ELSE IF ~require_auth(signer, env.instance[Admin]) THEN Return(AuthAbort, env)
    ELSE Return(Ok, instance_set(env, Admin, new_admin))

----------------------------------------------------------------------------
(* Read-only functions *)

RECURSIVE summaries_stop_at_missing(_, _, _)
\* Mutant of summaries: the listing ends at the first id whose record is
\* not found.
summaries_stop_at_missing(env, proposals, ledger_time) ==
    IF proposals = << >> THEN << >>
    ELSE LET id == Head(proposals) IN
         IF has(env.persistent, Proposal(id))
         THEN LET proposal == env.persistent[Proposal(id)] IN
              << [id |-> id,
                  description |-> proposal.description,
                  status |-> compute_proposal_status(ledger_time, proposal)] >>
              \o summaries_stop_at_missing(env, Tail(proposals), ledger_time)
         ELSE << >>

RECURSIVE summaries(_, _, _)
\* lib.rs:324-339: one summary per id of `proposals` whose record is found
summaries(env, proposals, ledger_time) ==
    IF proposals = << >> THEN << >>
    ELSE LET id == Head(proposals)
             rest == summaries(env, Tail(proposals), ledger_time)
         IN  IF has(env.persistent, Proposal(id))
             THEN LET proposal == env.persistent[Proposal(id)] IN
                  << [id |-> id,
                      description |-> proposal.description,
                      status |-> compute_proposal_status(ledger_time, proposal)] >>
                  \o rest
             ELSE rest

get_governance_details(env) ==
    summaries(env, proposals_of(env), env.timestamp)

get_proposal_details(env, id) ==
    IF has(env.persistent, Proposal(id))
    THEN [err |-> Ok, proposal |-> env.persistent[Proposal(id)]]
    ELSE [err |-> ProposalNotFound]

get_user_details(env, user, token_balance) ==
    LET proposals == proposals_of(env)
        votes == votes_of(env, user)
        voting_power == IF token_balance > 0 THEN 1 ELSE 0
    IN  IF ~has(env.instance, Token) THEN [err |-> ContractNotInitialized]
        ELSE [err |-> Ok,
              results |-> [i \in 1..Len(proposals) |->
                             <<proposals[i], has(votes, proposals[i]), voting_power>>]]

RECURSIVE get_each(_, _)
\* lib.rs:324-339: the storage left by reading the record of each id in turn
get_each(env, proposals) ==
    IF proposals = << >> THEN env
    ELSE get_each(storage_get(env, Proposal(Head(proposals))), Tail(proposals))

\* the storage get_governance_details leaves
get_governance_details_storage(env) ==
    get_each(storage_get(env, Proposals), proposals_of(env))

\* the storage get_proposal_details leaves
get_proposal_details_storage(env, id) ==
    storage_get(env, Proposal(id))

\* the storage get_user_details leaves: the index, the user's record and the
\* token are read, then the token's balance is asked for
get_user_details_storage(env, user) ==
    storage_get(storage_get(storage_get(env, Proposals), Votes(user)), Token)

----------------------------------------------------------------------------
(* The state machine *)

\* the environment a call runs in
Env ==
    [instance |-> instance, persistent |-> persistent,
     live_until |-> live_until, timestamp |-> timestamp]

\* the call leaves the storage of r.env; the ledger does not move
Commit(r) ==
    /\ instance' = r.env.instance
    /\ persistent' = r.env.persistent
    /\ live_until' = r.env.live_until
    /\ timestamp' = timestamp

\* the number of vote calls that have returned Ok
TotalAccepted == Cardinality({k \in DOMAIN accepted : accepted[k] > 0})

Init ==
    /\ instance = << >>
    /\ persistent = << >>
    /\ live_until = << >>
    /\ timestamp = GenesisTime
    /\ accepted = [k \in Address \X Ids |-> 0]

Constructor ==
    \E deployment \in Deployments :
        /\ Commit(__constructor(Env, deployment[1], deployment[2]))
        /\ UNCHANGED accepted

CreateProposal ==
    \E signer \in Address, draft \in Drafts :
        /\ timestamp \in CreateTimes
        /\ Commit(create_proposal(Env, signer, draft[1], draft[2],
                                  timestamp + draft[3],
                                  timestamp + draft[3] + draft[4]))
        /\ UNCHANGED accepted

Vote ==
    \E signer \in Address, id \in Ids, ballot \in Ballots :
        LET user == ballot[1]
            r == vote(Env, signer, user, id, ballot[2], ballot[3])
        IN
        /\ r.err = Ok => TotalAccepted < MaxVotes
        /\ Commit(r)
        /\ accepted' = IF r.err = Ok
                       THEN [accepted EXCEPT ![<<user, id>>] = @ + 1]
                       ELSE accepted

TransferAdmin ==
    \E signer \in Address, new_admin \in Address :
        /\ Commit(transfer_admin(Env, signer, new_admin))
        /\ UNCHANGED accepted

GetGovernanceDetails ==
    /\ Commit(Return(Ok, get_governance_details_storage(Env)))
    /\ UNCHANGED accepted

GetProposalDetails ==
    \E id \in Ids :
        /\ Commit(Return(get_proposal_details(Env, id).err,
                         get_proposal_details_storage(Env, id)))
        /\ UNCHANGED accepted

GetUserDetails ==
    \E user \in Address, token_balance \in Balances :
        /\ Commit(Return(get_user_details(Env, user, token_balance).err,
                         get_user_details_storage(Env, user)))
        /\ UNCHANGED accepted

\* the ids of the stored proposal records
StoredIds == {id \in Ids : has(persistent, Proposal(id))}

\* the instants around the voting windows of the stored proposals
WindowInstants ==
    UNION {{persistent[Proposal(id)].start_time - 1,
            persistent[Proposal(id)].start_time,
            persistent[Proposal(id)].end_time,
            persistent[Proposal(id)].end_time + 1} : id \in StoredIds}

\* The ledger closes: the timestamp moves forward to one of the instants
\* around a voting window.
AdvanceLedger ==
    \E t \in WindowInstants :
        /\ t > timestamp
        /\ timestamp' = t
        /\ UNCHANGED <<instance, persistent, live_until, accepted>>

Next ==
    \/ Constructor
    \/ CreateProposal
    \/ Vote
    \/ TransferAdmin
    \/ GetGovernanceDetails
    \/ GetProposalDetails
    \/ GetUserDetails
    \/ AdvanceLedger

Spec == Init /\ [][Next]_vars

----------------------------------------------------------------------------
(* The state machine with lapsing entries.  A persistent entry is found up *)
(* to the ledger live_until names; after it the host may stop finding it,  *)
(* and a get or has of its key then answers as for a key never written.    *)
(* Proposals are created at any time up to LastLedger.                     *)

\* The clock of SpecLapse stops at this ledger.
LastLedger == 3600000

\* the entry under key is no longer found
drop(env, key) ==
    [env EXCEPT
        !.persistent = [k \in DOMAIN env.persistent \ {key} |-> env.persistent[k]],
        !.live_until = [k \in DOMAIN env.live_until \ {key} |-> env.live_until[k]]]

Lapse ==
    \E key \in DOMAIN live_until :
        /\ live_until[key] < timestamp
        /\ Commit(Return(Ok, drop(Env, key)))
        /\ UNCHANGED accepted

\* a record created under an id whose earlier record is no longer found is
\* a new proposal: no vote on it has been accepted yet
CreateProposalAnytime ==
    \E signer \in Address, draft \in Drafts :
        LET r == create_proposal(Env, signer, draft[1], draft[2],
                                 timestamp + draft[3],
                                 timestamp + draft[3] + draft[4])
        IN
        /\ Commit(r)
        /\ accepted' = IF r.err = Ok
                       THEN [k \in DOMAIN accepted |->
                               IF k[2] = draft[1] THEN 0 ELSE accepted[k]]
                       ELSE accepted

\* the votes cast while entries lapse: one that can be accepted and one
\* that cannot
LapseBallots == {<<VOTE_FOR, 1>>, <<VOTE_AGAINST, 0>>}

VoteAnytime ==
    \E user \in Address, id \in Ids, ballot \in LapseBallots :
        LET r == vote(Env, user, user, id, ballot[1], ballot[2]) IN
        /\ r.err = Ok => TotalAccepted < MaxVotes
        /\ Commit(r)
        /\ accepted' = IF r.err = Ok
                       THEN [accepted EXCEPT ![<<user, id>>] = @ + 1]
                       ELSE accepted

\* the ledgers right after the end of an entry's lifetime
LapseInstants == {live_until[key] + 1 : key \in DOMAIN live_until}

\* The ledger closes: the timestamp moves forward to the end of a voting
\* window or past the end of an entry's lifetime.
AdvanceLedgerLapse ==
    \E t \in LapseInstants \cup
              {persistent[Proposal(id)].end_time : id \in StoredIds} :
        /\ t > timestamp
        /\ t <= LastLedger
        /\ timestamp' = t
        /\ UNCHANGED <<instance, persistent, live_until, accepted>>

NextLapse ==
    \/ Constructor
    \/ CreateProposalAnytime
    \/ VoteAnytime
    \/ Lapse
    \/ AdvanceLedgerLapse

SpecLapse == Init /\ [][NextLapse]_vars

----------------------------------------------------------------------------
(* The state machine with the lifetime of the contract instance.  Instance *)
(* storage (Admin, Token) lives in one ledger entry, the contract          *)
(* instance, whose lifetime the host sets at deployment; live_until holds  *)
(* it under the key Instance.  The contract is deployed at GenesisTime     *)
(* with the longest extension the source names; the calls are those of     *)
(* Spec.                                                                   *)

\* the ledger entry of the contract instance
Instance == <<"Instance">>

InitDeployed ==
    /\ instance = << >>
    /\ persistent = << >>
    /\ live_until = put(<< >>, Instance, GenesisTime + PROPOSALS_TTL_EXTENSION)
    /\ timestamp = GenesisTime
    /\ accepted = [k \in Address \X Ids |-> 0]

SpecDeployed == InitDeployed /\ [][Next]_vars

----------------------------------------------------------------------------
(* The timing of create_proposal in the width of the source.  start_time,   *)
(* end_time and the ledger timestamp are u64 and `as u32` (lib.rs:97) keeps *)
(* the low 32 bits; numbers of that size are written here as five limbs of *)
(* 16 bits, lowest first, so that sums of u64 values are exact and the      *)
(* narrowing to u32 and the overflow of the u32 addition are explicit.      *)

Limb == 256 * 256

\* the number k * 2^32 + x, for 0 <= k < 2^31 and 0 <= x < 2^31
Num(k, x) == <<x % Limb, x \div Limb, k % Limb, k \div Limb, 0>>

RECURSIVE less(_, _)
\* a < b, decided at the highest limb in which they differ
less(a, b) ==
    IF a = << >> THEN FALSE
    ELSE LET n == Len(a) IN
         IF a[n] # b[n] THEN a[n] < b[n]
         ELSE less(SubSeq(a, 1, n - 1), SubSeq(b, 1, n - 1))

RECURSIVE plus_carry(_, _, _)
plus_carry(a, b, carry) ==
    IF a = << >> THEN << >>
    ELSE LET sum == Head(a) + Head(b) + carry IN
         <<sum % Limb>> \o plus_carry(Tail(a), Tail(b), sum \div Limb)

\* a + b
plus(a, b) == plus_carry(a, b, 0)

RECURSIVE minus_borrow(_, _, _)
minus_borrow(a, b, borrow) ==
    IF a = << >> THEN << >>
    ELSE LET difference == Head(a) - Head(b) - borrow IN
         <<(difference + Limb) % Limb>>
         \o minus_borrow(Tail(a), Tail(b), IF difference < 0 THEN 1 ELSE 0)

\* a - b, for a >= b
minus(a, b) == minus_borrow(a, b, 0)

\* the number is below 2^32
fits_u32(a) == a[3] = 0 /\ a[4] = 0 /\ a[5] = 0

\* `a as u32`: the low 32 bits
low_u32(a) == <<a[1], a[2], 0, 0, 0>>

\* What a call returns when a u32 addition overflows in a build that checks
\* arithmetic: the call is aborted.
Panic == "Panic"

\* overflow_checks: whether the build checks arithmetic for overflow (the
\* addition of lib.rs:97 panics) or not (it wraps)
calculate_proposal_ttl64(env, proposal_end_time, overflow_checks) ==
    LET ledger_time == env.timestamp
        proposal_duration ==
            IF less(ledger_time, proposal_end_time)
            THEN minus(proposal_end_time, ledger_time)
            ELSE Num(0, 0)
        sum == plus(low_u32(proposal_duration), Num(0, PROPOSAL_TTL_BUFFER))
        min_ttl == low_u32(sum)
    IN  IF ~fits_u32(sum) /\ overflow_checks
        THEN [panic |-> TRUE]
        ELSE [panic |-> FALSE,
              ttl |-> IF less(min_ttl, Num(0, PROPOSALS_TTL_EXTENSION))
                      THEN Num(0, PROPOSALS_TTL_EXTENSION)
                      ELSE min_ttl]

validate_proposal_times64(ledger_time, start_time, end_time) ==
    IF ~less(start_time, end_time) THEN StartTimeAfterEnd
    ELSE IF less(start_time, ledger_time) THEN StartTimeInPast
    ELSE LET duration == minus(end_time, start_time) IN
         IF less(Num(0, MAX_PROPOSAL_DURATION), duration) THEN DurationTooLong
         ELSE IF less(duration, Num(0, MIN_PROPOSAL_DURATION)) THEN DurationTooShort
         ELSE Ok

\* extend_ttl of the host, on numbers in limbs
extend_ttl64(env, key, threshold, extend_to) ==
    IF /\ has(env.live_until, key)
       /\ ~less(plus(env.timestamp, threshold), env.live_until[key])
       /\ less(env.live_until[key], plus(env.timestamp, extend_to))
    THEN [env EXCEPT !.live_until =
             put(env.live_until, key, plus(env.timestamp, extend_to))]
    ELSE env

\* lib.rs:183-212, with the proposal's lifetime computed in the source's width
store_proposal64(env, id, description, start_time, end_time, overflow_checks) ==
    LET proposal_key == Proposal(id)
        proposal == [description |-> description,
                     start_time |-> start_time,
                     end_time |-> end_time,
                     total_for |-> 0,
                     total_against |-> 0,
                     total_abstain |-> 0]
        env1 == persistent_set(env, proposal_key, proposal)
        proposal_ttl == calculate_proposal_ttl64(env1, end_time, overflow_checks)
    IN  IF proposal_ttl.panic THEN Return(Panic, env)
        ELSE LET env2 == extend_ttl64(env1, proposal_key,
                                      proposal_ttl.ttl, proposal_ttl.ttl)
                 proposals == proposals_of(env2)
                 env3 == persistent_set(env2, Proposals, Append(proposals, id))
             IN  Return(Ok, extend_ttl64(env3, Proposals,
                                         Num(0, PROPOSALS_TTL_EXTENSION),
                                         Num(0, PROPOSALS_TTL_EXTENSION)))

create_proposal64(env, signer, id, description, start_time, end_time, overflow_checks) ==
    IF ~has(env.instance, Admin) THEN Return(ContractNotInitialized, env)
    ELSE IF ~require_auth(signer, env.instance[Admin]) THEN Return(AuthAbort, env)
    ELSE LET checked == validate_proposal_times64(env.timestamp, start_time, end_time) IN
         IF checked # Ok THEN Return(checked, env)
         ELSE IF has(env.persistent, Proposal(id))
         THEN Return(ProposalAlreadyExists, env)
         ELSE store_proposal64(env, id, description, start_time, end_time,
                               overflow_checks)

\* 2^32
TwoTo32 == Num(1, 0)

\* start_time - now of the create_proposal calls: at once, in the next
\* second, from where the lifetime follows the end of the window, and
\* around the starts whose window ends 2^32 seconds from now
FarStarts ==
    {Num(0, 0), Num(0, 1),
     Num(0, PROPOSALS_TTL_EXTENSION - PROPOSAL_TTL_BUFFER - MIN_PROPOSAL_DURATION + 1),
     minus(TwoTo32, Num(0, MIN_PROPOSAL_DURATION + PROPOSAL_TTL_BUFFER + 1)),
     minus(TwoTo32, Num(0, MIN_PROPOSAL_DURATION + PROPOSAL_TTL_BUFFER)),
     minus(TwoTo32, Num(0, MIN_PROPOSAL_DURATION + 1)),
     minus(TwoTo32, Num(0, MIN_PROPOSAL_DURATION)),
     TwoTo32, Num(2, 5)}

\* end_time - start_time of the create_proposal calls
WindowLengths ==
    {MIN_PROPOSAL_DURATION, MAX_PROPOSAL_DURATION, MAX_PROPOSAL_DURATION + 1}

\* the ledger timestamps the calls are made at
Nows == {Num(0, GenesisTime), Num(1, GenesisTime)}

\* the contract has been constructed by alice with tokenA
InitWide ==
    /\ instance = put(put(<< >>, Admin, "alice"), Token, "tokenA")
    /\ persistent = << >>
    /\ live_until = << >>
    /\ timestamp \in Nows
    /\ accepted = [k \in Address \X Ids |-> 0]

CreateProposal64 ==
    \E signer \in Address, id \in Ids, far \in FarStarts,
       length \in WindowLengths, overflow_checks \in BOOLEAN :
        /\ Commit(create_proposal64(Env, signer, id, "d1",
                                    plus(timestamp, far),
                                    plus(plus(timestamp, far), Num(0, length)),
                                    overflow_checks))
        /\ UNCHANGED accepted

NextWide == CreateProposal64

SpecWide == InitWide /\ [][NextWide]_vars

----------------------------------------------------------------------------
(* The tallies of vote in the width of the source.  total_for,             *)
(* total_against and total_abstain are i128; here a tally is written as     *)
(* eight limbs of 16 bits, lowest first, in two's complement, so that the   *)
(* largest i128 and the sum that passes it are explicit.  The proposal is   *)
(* one whose tallies stand at zero, one below the largest i128 or at it;    *)
(* of the users who have voted on it only the records of Address are kept.  *)

\* i128::MAX = 2^127 - 1
I128_MAX ==
    <<Limb - 1, Limb - 1, Limb - 1, Limb - 1, Limb - 1, Limb - 1, Limb - 1,
      Limb \div 2 - 1>>

\* the i128 of a number 0 <= x < 2^16
I128(x) == <<x, 0, 0, 0, 0, 0, 0, 0>>

\* the sign bit of an i128 is set
negative(a) == a[8] >= Limb \div 2

\* Mutant of saturating_add128: i128::wrapping_add, the sum modulo 2^128.
wrapping_add128(x, y) == plus(x, y)

\* i128::saturating_add(x, y) for x >= 0 and y >= 0: the sum, or i128::MAX
\* when the sum passes it
saturating_add128(x, y) ==
    LET sum == plus(x, y) IN
    IF negative(sum) THEN I128_MAX ELSE sum

\* lib.rs:261-269 on i128 tallies
count_choice128(proposal, choice) ==
    IF choice = VOTE_FOR
    THEN [err |-> Ok,
          proposal |-> [proposal EXCEPT
                           !.total_for = saturating_add128(@, I128(1))]]
    ELSE IF choice = VOTE_AGAINST
    THEN [err |-> Ok,
          proposal |-> [proposal EXCEPT
                           !.total_against = saturating_add128(@, I128(1))]]
    ELSE IF choice = VOTE_ABSTAIN
    THEN [err |-> Ok,
          proposal |-> [proposal EXCEPT
                           !.total_abstain = saturating_add128(@, I128(1))]]
    ELSE [err |-> InvalidChoice, proposal |-> proposal]

\* vote on a proposal with i128 tallies
vote128(env, signer, user, id, choice, token_balance) ==
    IF ~require_auth(signer, user) THEN Return(AuthAbort, env)
    ELSE IF ~has(env.persistent, Proposal(id)) THEN Return(ProposalNotFound, env)
    ELSE LET proposal == env.persistent[Proposal(id)]
             ledger_time == env.timestamp
             votes == votes_of(env, user)
         IN
         IF voting_not_active(ledger_time, proposal) THEN Return(VotingNotActive, env)
         ELSE IF has(votes, id) THEN Return(UserAlreadyVoted, env)
         ELSE IF ~has(env.instance, Token) THEN Return(ContractNotInitialized, env)
         ELSE IF cannot_vote(token_balance) THEN Return(UserCannotVote, env)
         ELSE LET counted == count_choice128(proposal, choice) IN
              IF counted.err # Ok THEN Return(counted.err, env)
              ELSE Return(Ok, store_vote(env, user, id, counted.proposal, votes))

\* the tallies a proposal starts the run with
HighTallies == {I128(0), minus(I128_MAX, I128(1)), I128_MAX}

\* alice has constructed the contract with tokenA and created PROP001 over
\* the shortest window from GenesisTime; its tallies are of HighTallies
InitHigh ==
    /\ instance = put(put(<< >>, Admin, "alice"), Token, "tokenA")
    /\ \E total_for \in HighTallies, total_against \in HighTallies,
          total_abstain \in HighTallies :
          persistent =
              put(put(<< >>, Proposals, <<"PROP001">>),
                  Proposal("PROP001"),
                  [description |-> "d1",
                   start_time |-> GenesisTime,
                   end_time |-> GenesisTime + MIN_PROPOSAL_DURATION,
                   total_for |-> total_for,
                   total_against |-> total_against,
                   total_abstain |-> total_abstain])
    /\ live_until =
          put(put(<< >>, Proposals, GenesisTime + PROPOSALS_TTL_EXTENSION),
              Proposal("PROP001"), GenesisTime + PROPOSALS_TTL_EXTENSION)
    /\ timestamp = GenesisTime
    /\ accepted = [k \in Address \X Ids |-> 0]

Vote128 ==
    \E signer \in Address, id \in Ids, ballot \in Ballots :
        LET user == ballot[1]
            r == vote128(Env, signer, user, id, ballot[2], ballot[3])
        IN
        /\ Commit(r)
        /\ accepted' = IF r.err = Ok
                       THEN [accepted EXCEPT ![<<user, id>>] = @ + 1]
                       ELSE accepted

NextHigh == Vote128 \/ AdvanceLedger

SpecHigh == InitHigh /\ [][NextHigh]_vars

----------------------------------------------------------------------------
(* Properties.  Each is stated over the calls of every input of the sets   *)
(* above, made in the state at hand: a call by `user` is a call `user`     *)
(* has authorized, a call by the admin one the stored admin has.           *)

Tally(proposal) ==
    proposal.total_for + proposal.total_against + proposal.total_abstain

\* the users whose vote on id has been accepted
Voters(id) == {user \in Address : accepted[<<user, id>>] > 0}

\* the stored admin
TheAdmin == instance[Admin]

InWindow(id) ==
    /\ persistent[Proposal(id)].start_time <= timestamp
    /\ timestamp <= persistent[Proposal(id)].end_time

ValidChoices == {VOTE_FOR, VOTE_AGAINST, VOTE_ABSTAIN}

\* the tally a valid choice names
TallyOf(proposal, choice) ==
    IF choice = VOTE_FOR THEN proposal.total_for
    ELSE IF choice = VOTE_AGAINST THEN proposal.total_against
    ELSE proposal.total_abstain

\* C1 as stated: at most one vote by a user on a proposal is accepted; once
\* one is, every later vote of the user on it fails with UserAlreadyVoted
\* and leaves the storage alone, and the tallies count each voter once.
C1_EveryLaterVoteAlreadyVoted ==
    \A user \in Address, id \in Ids :
        /\ accepted[<<user, id>>] <= 1
        /\ accepted[<<user, id>>] = 1 =>
              /\ has(persistent, Proposal(id))
              /\ Tally(persistent[Proposal(id)]) = Cardinality(Voters(id))
              /\ \A choice \in Choices, token_balance \in Balances :
                    LET r == vote(Env, user, user, id, choice, token_balance) IN
                    r.err = UserAlreadyVoted /\ r.env = Env

\* C1 amended: at most one vote by a user on a proposal is accepted; once
\* one is, every later vote of the user on it fails and leaves the storage
\* alone, with UserAlreadyVoted up to the proposal's end_time and with
\* VotingNotActive after it, and the tallies count each voter once.
C1_OneVotePerUser ==
    \A user \in Address, id \in Ids :
        /\ accepted[<<user, id>>] <= 1
        /\ accepted[<<user, id>>] = 1 =>
              /\ has(persistent, Proposal(id))
              /\ Tally(persistent[Proposal(id)]) = Cardinality(Voters(id))
              /\ \A choice \in Choices, token_balance \in Balances :
                    LET r == vote(Env, user, user, id, choice, token_balance) IN
                    /\ r.err = IF timestamp <= persistent[Proposal(id)].end_time
                               THEN UserAlreadyVoted
                               ELSE VotingNotActive
                    /\ r.env = Env

\* a user has voted, the window is still open and a second vote is refused
C1_Witness ==
    \E user \in Address, id \in Ids :
        /\ accepted[<<user, id>>] = 1
        /\ InWindow(id)
        /\ persistent[Proposal(id)].total_for = 1
        /\ vote(Env, user, user, id, VOTE_AGAINST, 1).err = UserAlreadyVoted

\* C2: for a stored proposal and a user who has not voted on it, holds a
\* positive balance and names a valid choice, the vote is accepted exactly
\* when start_time <= now <= end_time and fails with VotingNotActive
\* otherwise (so at start_time - 1 and end_time + 1 it fails, at start_time
\* and end_time it is accepted); an accepted vote adds one to its tally.
C2_WindowInclusive ==
    \A user \in Address, id \in StoredIds, choice \in ValidChoices,
       token_balance \in {b \in Balances : b > 0} :
        ~has(votes_of(Env, user), id) =>
            LET proposal == persistent[Proposal(id)]
                r == vote(Env, user, user, id, choice, token_balance)
            IN
            /\ r.err = Ok <=> (proposal.start_time <= timestamp
                               /\ timestamp <= proposal.end_time)
            /\ r.err # Ok => r.err = VotingNotActive
            /\ timestamp \in {proposal.start_time, proposal.end_time} => r.err = Ok
            /\ timestamp \in {proposal.start_time - 1, proposal.end_time + 1}
                  => r.err = VotingNotActive
            /\ r.err = Ok =>
                  /\ TallyOf(r.env.persistent[Proposal(id)], choice)
                        = TallyOf(proposal, choice) + 1
                  /\ Tally(r.env.persistent[Proposal(id)]) = Tally(proposal) + 1

\* the ledger stands at a proposal's end_time, a vote cast at that instant
\* has been accepted (the voter's record lives VOTE_TTL_EXTENSION from it)
\* and the other user's vote is accepted there too
C2_Witness ==
    \E user \in Address, other \in Address, id \in StoredIds :
        /\ timestamp = persistent[Proposal(id)].end_time
        /\ accepted[<<user, id>>] = 1
        /\ live_until[Votes(user)] = timestamp + VOTE_TTL_EXTENSION
        /\ accepted[<<other, id>>] = 0
        /\ vote(Env, other, other, id, VOTE_FOR, 1).err = Ok

\* the calls of each entry point, over all inputs
ConstructorCalls ==
    {__constructor(Env, admin, token) : admin \in Address, token \in TokenAddress}

CreateCalls ==
    {create_proposal(Env, signer, id, description,
                     timestamp + off, timestamp + off + duration) :
        signer \in Address, id \in Ids, description \in Descriptions,
        off \in StartOffsets, duration \in Durations}

VoteCalls ==
    {vote(Env, signer, user, id, choice, token_balance) :
        signer \in Address, user \in Address, id \in Ids,
        choice \in Choices, token_balance \in Balances}

TransferCalls ==
    {transfer_admin(Env, signer, new_admin) :
        signer \in Address, new_admin \in Address}

\* C3: a call of __constructor, create_proposal, vote or transfer_admin
\* that does not return Ok leaves the instance storage, the persistent
\* storage and every entry's lifetime as they were.
C3_FailureIsNoOp ==
    /\ \A admin \in Address, token \in TokenAddress :
          LET r == __constructor(Env, admin, token) IN
          r.err # Ok => r.env = Env
    /\ \A signer \in Address, id \in Ids, description \in Descriptions,
          off \in StartOffsets, duration \in Durations :
          LET r == create_proposal(Env, signer, id, description,
                                   timestamp + off, timestamp + off + duration)
          IN r.err # Ok => r.env = Env
    /\ \A signer \in Address, user \in Address, id \in Ids,
          choice \in Choices, token_balance \in Balances :
          LET r == vote(Env, signer, user, id, choice, token_balance) IN
          r.err # Ok => r.env = Env
    /\ \A signer \in Address, new_admin \in Address :
          LET r == transfer_admin(Env, signer, new_admin) IN
          r.err # Ok => r.env = Env

\* a state with a proposal, a vote and a transferred admin in which each of
\* the four entry points has a failing call
C3_Witness ==
    /\ \E id \in StoredIds : Tally(persistent[Proposal(id)]) > 0
    /\ has(instance, Admin) /\ TheAdmin = "bob"
    /\ \E r \in ConstructorCalls : r.err = ContractAlreadyInitialized
    /\ \E r \in CreateCalls : r.err = ProposalAlreadyExists
    /\ \E r \in VoteCalls : r.err = UserAlreadyVoted
    /\ \E r \in TransferCalls : r.err = AuthAbort

\* C4: once an Admin is stored, every __constructor call fails with
\* ContractAlreadyInitialized and leaves the stored admin and token as they
\* are, whatever its arguments and whatever has happened since.
C4_InitOnce ==
    has(instance, Admin) =>
        \A admin \in Address, token \in TokenAddress :
            LET r == __constructor(Env, admin, token) IN
            /\ r.err = ContractAlreadyInitialized
            /\ r.env.instance = instance
            /\ has(instance, Token)
            /\ instance[Token] = "tokenA"

\* the admin has been transferred to bob, and a constructor call naming
\* alice and another token is refused
C4_Witness ==
    /\ has(instance, Admin) /\ TheAdmin = "bob"
    /\ __constructor(Env, "alice", "tokenB").err = ContractAlreadyInitialized

TimingErrors ==
    {StartTimeAfterEnd, StartTimeInPast, DurationTooLong, DurationTooShort}

\* the index holds no id twice
IndexHasNoDuplicate ==
    \A i \in DOMAIN proposals_of(Env), j \in DOMAIN proposals_of(Env) :
        i # j => proposals_of(Env)[i] # proposals_of(Env)[j]

\* C6 as stated: once an id is stored, every create_proposal of the admin
\* with that id fails with ProposalAlreadyExists and leaves the storage
\* alone (no tally is reset), and the index holds no id twice.
C6_EveryLaterCreateAlreadyExists ==
    /\ IndexHasNoDuplicate
    /\ \A id \in StoredIds, description \in Descriptions,
          off \in StartOffsets, duration \in Durations :
           LET r == create_proposal(Env, TheAdmin, id, description,
                                    timestamp + off, timestamp + off + duration)
           IN  r.err = ProposalAlreadyExists /\ r.env = Env

\* C6 amended: once an id is stored, every create_proposal of the admin
\* with that id fails and leaves the storage alone (no tally is reset):
\* with ProposalAlreadyExists when its start_time and end_time pass the
\* timing checks, with the timing error otherwise; and the index holds no
\* id twice.
C6_IdsUnique ==
    /\ IndexHasNoDuplicate
    /\ \A id \in StoredIds, description \in Descriptions,
          off \in StartOffsets, duration \in Durations :
           LET r == create_proposal(Env, TheAdmin, id, description,
                                    timestamp + off, timestamp + off + duration)
               well_timed == /\ off >= 0
                             /\ duration >= MIN_PROPOSAL_DURATION
                             /\ duration <= MAX_PROPOSAL_DURATION
           IN  /\ r.env = Env
               /\ well_timed => r.err = ProposalAlreadyExists
               /\ ~well_timed => r.err \in TimingErrors

\* after the clock has moved on, a proposal with an accepted vote is stored
\* and a well-timed create_proposal with its id is refused
C6_Witness ==
    \E id \in StoredIds :
        /\ timestamp > GenesisTime
        /\ Tally(persistent[Proposal(id)]) = 1
        /\ create_proposal(Env, TheAdmin, id, "d2", timestamp,
                           timestamp + MIN_PROPOSAL_DURATION).err
              = ProposalAlreadyExists

\* C7: a vote on a proposal in its window by a user who has not voted on it
\* is accepted only with a token balance above zero; with a balance of zero
\* or less it fails with UserCannotVote and leaves the storage alone.
C7_TokenGated ==
    \A user \in Address, id \in StoredIds,
       choice \in Choices, token_balance \in Balances :
        (InWindow(id) /\ ~has(votes_of(Env, user), id)) =>
            LET r == vote(Env, user, user, id, choice, token_balance) IN
            /\ r.err = Ok => token_balance > 0
            /\ token_balance <= 0 => (r.err = UserCannotVote /\ r.env = Env)

\* in a window in which the other user has voted, a user who has not is
\* refused with a balance of zero and accepted with a balance of one
C7_Witness ==
    \E user \in Address, other \in Address, id \in StoredIds :
        /\ InWindow(id)
        /\ accepted[<<other, id>>] = 1
        /\ ~has(votes_of(Env, user), id)
        /\ vote(Env, user, user, id, VOTE_FOR, 0).err = UserCannotVote
        /\ vote(Env, user, user, id, VOTE_FOR, 1).err = Ok

\* C8 as stated, for the votes on stored proposals: every vote with a
\* choice other than FOR, AGAINST and ABSTAIN fails with InvalidChoice and
\* leaves the storage alone.
C8_EveryBadChoiceInvalidChoice ==
    \A user \in Address, id \in StoredIds, choice \in Choices \ ValidChoices,
       token_balance \in Balances :
        LET r == vote(Env, user, user, id, choice, token_balance) IN
        r.err = InvalidChoice /\ r.env = Env

\* C8 amended: every vote with a choice other than FOR, AGAINST and ABSTAIN
\* fails and leaves the storage alone (no tally moves, the user is not
\* marked); it fails with InvalidChoice when the proposal is stored and in
\* its window and the user has not voted on it and holds a positive
\* balance, and then the user's vote with any valid choice is still
\* accepted, once.
C8_InvalidChoiceNoMutation ==
    \A user \in Address, id \in Ids, choice \in Choices \ ValidChoices,
       token_balance \in Balances :
        LET r == vote(Env, user, user, id, choice, token_balance) IN
        /\ r.err # Ok
        /\ r.env = Env
        /\ (/\ id \in StoredIds
            /\ InWindow(id)
            /\ ~has(votes_of(Env, user), id)
            /\ token_balance > 0) =>
               /\ r.err = InvalidChoice
               /\ \A valid \in ValidChoices :
                     LET again == vote(r.env, user, user, id, valid, token_balance) IN
                     /\ again.err = Ok
                     /\ vote(again.env, user, user, id, valid, token_balance).err
                           = UserAlreadyVoted

\* a user who has voted on one proposal and not on the other, both in
\* their windows, is refused "MAYBE" on the other with InvalidChoice
C8_Witness ==
    \E user \in Address, id \in StoredIds, other \in StoredIds :
        /\ InWindow(id)
        /\ accepted[<<user, other>>] = 1
        /\ ~has(votes_of(Env, user), id)
        /\ vote(Env, user, user, id, "MAYBE", 500).err = InvalidChoice

\* a create_proposal call that passes every check but authorization
WellFormedCreate(env, caller, id) ==
    create_proposal(env, caller, id, "d1", env.timestamp,
                    env.timestamp + MIN_PROPOSAL_DURATION)

\* C9: transfer_admin by the admin returns Ok, and in the storage it leaves
\* create_proposal and transfer_admin pass authorization for new_admin
\* alone: called by anyone else, the old admin included, they abort.
C9_TransferImmediate ==
    has(instance, Admin) =>
        \A new_admin \in Address :
            LET r == transfer_admin(Env, TheAdmin, new_admin) IN
            /\ r.err = Ok
            /\ \A caller \in Address, id \in Ids, next_admin \in Address :
                  /\ caller # new_admin =>
                        /\ WellFormedCreate(r.env, caller, id).err = AuthAbort
                        /\ transfer_admin(r.env, caller, next_admin).err = AuthAbort
                  /\ caller = new_admin =>
                        /\ WellFormedCreate(r.env, caller, id).err
                              = IF id \in StoredIds THEN ProposalAlreadyExists ELSE Ok
                        /\ transfer_admin(r.env, caller, next_admin).err = Ok

\* alice deployed the contract and bob is the admin now: alice's
\* create_proposal aborts and bob's is accepted
C9_Witness ==
    /\ has(instance, Admin) /\ TheAdmin = "bob"
    /\ \E id \in Ids :
          /\ WellFormedCreate(Env, "alice", id).err = AuthAbort
          /\ WellFormedCreate(Env, "bob", id).err = Ok

\* C10: an accepted vote adds exactly one to the tally its choice names
\* and changes nothing else of the proposal's record, whatever the positive
\* balance; it adds the id to the user's vote record; every other
\* proposal's record, every other user's vote record, the index, the admin
\* and the token are as before.
C10_VoteCountsOne ==
    \A user \in Address, id \in Ids, choice \in Choices, token_balance \in Balances :
        LET r == vote(Env, user, user, id, choice, token_balance) IN
        r.err = Ok =>
            LET old == persistent[Proposal(id)]
                new == r.env.persistent[Proposal(id)]
            IN
            /\ choice = VOTE_FOR => new = [old EXCEPT !.total_for = @ + 1]
            /\ choice = VOTE_AGAINST => new = [old EXCEPT !.total_against = @ + 1]
            /\ choice = VOTE_ABSTAIN => new = [old EXCEPT !.total_abstain = @ + 1]
            /\ choice \in ValidChoices
            /\ \A b \in Balances : b > 0 => vote(Env, user, user, id, choice, b) = r
            /\ DOMAIN votes_of(r.env, user) = DOMAIN votes_of(Env, user) \cup {id}
            /\ DOMAIN r.env.persistent = DOMAIN persistent \cup {Votes(user)}
            /\ \A key \in DOMAIN persistent \ {Proposal(id), Votes(user)} :
                  r.env.persistent[key] = persistent[key]
            /\ r.env.instance = instance

\* one proposal has one vote FOR and one AGAINST, cast with balances 1 and
\* 500 by the two users, and the other proposal is stored with no vote
C10_Witness ==
    \E id \in StoredIds, other \in StoredIds :
        /\ persistent[Proposal(id)].total_for = 1
        /\ persistent[Proposal(id)].total_against = 1
        /\ persistent[Proposal(id)].total_abstain = 0
        /\ \A user \in Address : accepted[<<user, id>>] = 1
        /\ Tally(persistent[Proposal(other)]) = 0

\* C11: a call without the authorization it requires (of `user` for vote,
\* of the stored admin for create_proposal and transfer_admin) returns the
\* host's abort, which is none of TokenGatedVoteContractErrors, and leaves
\* the storage alone, whatever its other arguments: a vote aborts so on a
\* proposal that is not stored, not in its window or already voted on by the
\* user, a create_proposal with a stored id or a bad window as well.
C11_UnauthorizedAborts ==
    /\ AuthAbort \notin TokenGatedVoteContractErrors
    /\ \A signer \in Address, user \in Address, id \in Ids,
          choice \in Choices, token_balance \in Balances :
          signer # user =>
              vote(Env, signer, user, id, choice, token_balance)
                  = Return(AuthAbort, Env)
    /\ has(instance, Admin) =>
          \A signer \in Address \ {TheAdmin} :
              /\ \A id \in Ids, off \in StartOffsets, duration \in Durations :
                    create_proposal(Env, signer, id, "d1", timestamp + off,
                                    timestamp + off + duration)
                        = Return(AuthAbort, Env)
              /\ \A new_admin \in Address :
                    transfer_admin(Env, signer, new_admin) = Return(AuthAbort, Env)

\* after a proposal's window has closed on a user's accepted vote, a vote
\* in the user's name that the user has not authorized aborts, where the
\* user's own is refused with VotingNotActive; so does a create_proposal
\* with the stored id by someone who is not the admin
C11_Witness ==
    \E user \in Address, other \in Address, id \in StoredIds :
        /\ other # user
        /\ accepted[<<user, id>>] = 1
        /\ timestamp > persistent[Proposal(id)].end_time
        /\ vote(Env, user, user, id, VOTE_FOR, 1).err = VotingNotActive
        /\ vote(Env, other, user, id, VOTE_FOR, 1).err = AuthAbort
        /\ vote(Env, other, user, id, "MAYBE", 0).err = AuthAbort
        /\ \E caller \in Address \ {TheAdmin} :
              WellFormedCreate(Env, caller, id).err = AuthAbort
        /\ WellFormedCreate(Env, TheAdmin, id).err = ProposalAlreadyExists

\* every stored proposal has start_time < end_time and no negative tally
ProposalsWellFormed ==
    \A id \in StoredIds :
        LET proposal == persistent[Proposal(id)] IN
        /\ proposal.start_time < proposal.end_time
        /\ proposal.total_for >= 0
        /\ proposal.total_against >= 0
        /\ proposal.total_abstain >= 0

\* a step keeps every stored proposal, with its description, start_time and
\* end_time; no tally of it goes down; and when its record changes, the
\* step is a vote on it that returned Ok
ProposalsKept ==
    \A id \in StoredIds :
        /\ has(persistent', Proposal(id))
        /\ LET old == persistent[Proposal(id)]
               new == persistent'[Proposal(id)]
           IN
           /\ new.description = old.description
           /\ new.start_time = old.start_time
           /\ new.end_time = old.end_time
           /\ new.total_for >= old.total_for
           /\ new.total_against >= old.total_against
           /\ new.total_abstain >= old.total_abstain
           /\ new # old =>
                 \E user \in Address, choice \in Choices, token_balance \in Balances :
                     LET r == vote(Env, user, user, id, choice, token_balance) IN
                     /\ r.err = Ok
                     /\ persistent' = r.env.persistent
                     /\ live_until' = r.env.live_until
                     /\ instance' = instance

\* C12: in every state every stored proposal has start_time < end_time and
\* three tallies that are not negative; and every step keeps every stored
\* proposal's record with its description, start_time and end_time, lowers
\* no tally, and changes a tally only by a vote that returns Ok.
C12_ProposalsStable ==
    []ProposalsWellFormed /\ [][ProposalsKept]_vars

\* both proposals are stored, the clock has passed the end of one that has
\* an abstention and a vote against, and the other has no vote
C12_Witness ==
    \E id \in StoredIds, other \in StoredIds :
        /\ timestamp > persistent[Proposal(id)].end_time
        /\ persistent[Proposal(id)].total_abstain = 1
        /\ persistent[Proposal(id)].total_against = 1
        /\ Tally(persistent[Proposal(other)]) = 0

\* C15: in every state, get_governance_details, get_proposal_details and
\* get_user_details, whether they return a value or an error, leave the
\* instance storage, the persistent storage and every entry's lifetime as
\* they were.
C15_QueriesReadOnly ==
    /\ get_governance_details_storage(Env) = Env
    /\ \A id \in Ids : get_proposal_details_storage(Env, id) = Env
    /\ \A user \in Address : get_user_details_storage(Env, user) = Env

\* the clock stands past a proposal's start, on which a vote was accepted
\* earlier, so that its record and the voter's have fewer ledgers left than
\* a write would give them; get_proposal_details returns the record and
\* fails for the id that is not stored, get_user_details returns the user's
\* participation
C15_Witness ==
    \E id \in StoredIds, missing \in Ids \ StoredIds, user \in Address :
        /\ accepted[<<user, id>>] = 1
        /\ live_until[Votes(user)] < timestamp + VOTE_TTL_EXTENSION
        /\ live_until[Proposal(id)] < timestamp + PROPOSALS_TTL_EXTENSION
        /\ Len(get_governance_details(Env)) = 1
        /\ get_proposal_details(Env, id).err = Ok
        /\ get_proposal_details(Env, missing).err = ProposalNotFound
        /\ get_user_details(Env, user, 0).results = << <<id, TRUE, 0>> >>

\* in the state at hand, no create_proposal, vote or query touches the
\* instance storage, and transfer_admin leaves the token in it
AdminRecordUntouched ==
    has(instance, Admin) =>
        /\ has(instance, Token)
        /\ \A id \in Ids, off \in StartOffsets, duration \in Durations :
              create_proposal(Env, TheAdmin, id, "d1", timestamp + off,
                              timestamp + off + duration).env.instance = instance
        /\ \A user \in Address, id \in Ids, choice \in Choices :
              vote(Env, user, user, id, choice, 1).env.instance = instance
        /\ get_governance_details_storage(Env).instance = instance
        /\ \A id \in Ids :
              get_proposal_details_storage(Env, id).instance = instance
        /\ \A user \in Address :
              get_user_details_storage(Env, user).instance = instance
        /\ \A signer \in Address, new_admin \in Address :
              LET r == transfer_admin(Env, signer, new_admin) IN
              /\ has(r.env.instance, Admin)
              /\ has(r.env.instance, Token)
              /\ r.env.instance[Token] = instance[Token]
              /\ r.err = Ok => r.env.instance[Admin] = new_admin
              /\ r.err # Ok => r.env.instance[Admin] = TheAdmin

\* a step keeps a stored Admin and Token, never changes the token, and
\* changes the admin only as a transfer_admin that returns Ok does
AdminRecordKept ==
    has(instance, Admin) =>
        /\ has(instance', Admin)
        /\ has(instance', Token)
        /\ instance'[Token] = instance[Token]
        /\ instance'[Admin] # instance[Admin] =>
              /\ transfer_admin(Env, TheAdmin, instance'[Admin])
                    = Return(Ok, [Env EXCEPT !.instance = instance'])
              /\ persistent' = persistent
              /\ live_until' = live_until

\* C13: once __constructor has stored the Admin and the Token, no step
\* removes either; the admin changes only by a transfer_admin that returns
\* Ok, and then to its new_admin (create_proposal, vote and the three
\* queries leave the instance storage as it is); the token never changes,
\* not by transfer_admin either.
C13_AdminRecordStable ==
    []AdminRecordUntouched /\ [][AdminRecordKept]_vars

\* the admin has been transferred from alice to bob, two votes have been
\* accepted, the token is the one of the deployment, and a transfer back
\* to alice would leave it so
C13_Witness ==
    /\ has(instance, Admin) /\ TheAdmin = "bob" /\ instance[Token] = "tokenA"
    /\ TotalAccepted = 2
    /\ transfer_admin(Env, "bob", "alice").env.instance[Token] = "tokenA"
    /\ transfer_admin(Env, "bob", "alice").env.instance[Admin] = "alice"

\* the instants around a proposal's window
Instants(proposal) ==
    {proposal.start_time - 1, proposal.start_time, proposal.start_time + 1,
     proposal.end_time - 1, proposal.end_time, proposal.end_time + 1}

\* the pairs of id and status get_governance_details reports in env
ReportedStatuses(env) ==
    LET listed == get_governance_details(env) IN
    {<<listed[i].id, listed[i].status>> : i \in DOMAIN listed}

\* the status get_governance_details reports for id in env
ReportedStatus(env, id) ==
    {reported[2] : reported \in {r \in ReportedStatuses(env) : r[1] = id}}

\* C14: a proposal's record holds no status; compute_proposal_status gives
\* Pending exactly when now < start_time, Active exactly when start_time <=
\* now <= end_time and Ended exactly when now > end_time, one of the three
\* at every instant; get_governance_details reports that status at the
\* ledger's time, and the storage a call of create_proposal, vote or
\* transfer_admin leaves reports the same status for every proposal stored
\* before the call.
C14_StatusIsPure ==
    LET reported == ReportedStatuses(Env) IN
    /\ \A id \in StoredIds :
          LET proposal == persistent[Proposal(id)] IN
          /\ DOMAIN proposal = {"description", "start_time", "end_time",
                                "total_for", "total_against", "total_abstain"}
          /\ \A now \in Instants(proposal) \cup {timestamp} :
                LET status == compute_proposal_status(now, proposal) IN
                /\ status \in {Pending, Active, Ended}
                /\ status = Pending <=> now < proposal.start_time
                /\ status = Active <=>
                      (proposal.start_time <= now /\ now <= proposal.end_time)
                /\ status = Ended <=> now > proposal.end_time
          /\ {r[2] : r \in {q \in reported : q[1] = id}}
                = {compute_proposal_status(timestamp, proposal)}
    /\ \A user \in Address, voted \in Ids, choice \in Choices :
          ReportedStatuses(vote(Env, user, user, voted, choice, 1).env) = reported
    /\ \A other \in Ids, off \in StartOffsets, duration \in Durations :
          LET r == create_proposal(Env, TheAdmin, other, "d2", timestamp + off,
                                   timestamp + off + duration)
          IN {q \in ReportedStatuses(r.env) : q[1] \in StoredIds} = reported
    /\ \A new_admin \in Address :
          ReportedStatuses(transfer_admin(Env, TheAdmin, new_admin).env) = reported

\* at one instant one proposal is reported Ended and the other Active, a
\* vote on the open one is accepted and it is still reported Active
C14_Witness ==
    \E id \in StoredIds, other \in StoredIds, user \in Address :
        /\ ReportedStatus(Env, id) = {Ended}
        /\ ReportedStatus(Env, other) = {Active}
        /\ Tally(persistent[Proposal(other)]) = 1
        /\ vote(Env, user, user, other, VOTE_FOR, 1).err = Ok
        /\ ReportedStatus(vote(Env, user, user, other, VOTE_FOR, 1).env, other)
              = {Active}

\* the first check of create_proposal that a call fails, in the order
\* NotInitialized, StartTimeAfterEnd, StartTimeInPast, DurationTooLong,
\* DurationTooShort, ProposalAlreadyExists
FirstCreateFailure(id, start_time, end_time) ==
    IF ~has(instance, Admin) THEN ContractNotInitialized
    ELSE IF start_time >= end_time THEN StartTimeAfterEnd
    ELSE IF start_time < timestamp THEN StartTimeInPast
    ELSE IF end_time - start_time > MAX_PROPOSAL_DURATION THEN DurationTooLong
    ELSE IF end_time - start_time < MIN_PROPOSAL_DURATION THEN DurationTooShort
    ELSE IF id \in StoredIds THEN ProposalAlreadyExists
    ELSE Ok

\* C17: create_proposal, called by the stored admin (by anyone while none
\* is stored), returns the first failure in the order NotInitialized,
\* StartTimeAfterEnd, StartTimeInPast, DurationTooLong, DurationTooShort,
\* ProposalAlreadyExists: a start at or after the end that also lies in the
\* past gives StartTimeAfterEnd, and a stored id with a bad window gives
\* the timing error.
C17_CreateCheckOrder ==
    \A signer \in Address, id \in Ids, description \in Descriptions,
       off \in StartOffsets, duration \in Durations :
        (has(instance, Admin) => signer = TheAdmin) =>
            LET start_time == timestamp + off
                end_time == start_time + duration
                r == create_proposal(Env, signer, id, description,
                                     start_time, end_time)
            IN
            /\ r.err = FirstCreateFailure(id, start_time, end_time)
            /\ (off < 0 /\ duration <= 0 /\ has(instance, Admin))
                  => r.err = StartTimeAfterEnd
            /\ (id \in StoredIds /\ (off < 0 \/ duration < MIN_PROPOSAL_DURATION
                                      \/ duration > MAX_PROPOSAL_DURATION))
                  => r.err \in TimingErrors

\* with a proposal stored: a window that starts in the past and ends before
\* it starts gives StartTimeAfterEnd, one in the past that is too long
\* StartTimeInPast, and the stored id with too short a window
\* DurationTooShort
C17_Witness ==
    \E id \in StoredIds :
        /\ create_proposal(Env, TheAdmin, id, "d1", timestamp - 1,
                           timestamp - 2).err = StartTimeAfterEnd
        /\ create_proposal(Env, TheAdmin, id, "d1", timestamp - 1,
                           timestamp + MAX_PROPOSAL_DURATION).err = StartTimeInPast
        /\ create_proposal(Env, TheAdmin, id, "d1", timestamp,
                           timestamp + MIN_PROPOSAL_DURATION - 1).err
              = DurationTooShort
        /\ create_proposal(Env, TheAdmin, id, "d1", timestamp,
                           timestamp + MIN_PROPOSAL_DURATION).err
              = ProposalAlreadyExists

\* the first check of vote that a call fails, in the order authorization,
\* ProposalNotFound, VotingNotActive, UserAlreadyVoted, UserCannotVote,
\* InvalidChoice
FirstVoteFailure(signer, user, id, choice, token_balance) ==
    IF signer # user THEN AuthAbort
    ELSE IF id \notin StoredIds THEN ProposalNotFound
    ELSE IF ~InWindow(id) THEN VotingNotActive
    ELSE IF has(votes_of(Env, user), id) THEN UserAlreadyVoted
    ELSE IF token_balance <= 0 THEN UserCannotVote
    ELSE IF choice \notin ValidChoices THEN InvalidChoice
    ELSE Ok

\* C18: vote returns the first failure in the order authorization,
\* ProposalNotFound, VotingNotActive, UserAlreadyVoted, UserCannotVote,
\* InvalidChoice: a user who has voted and holds no token gets
\* UserAlreadyVoted, a user without a token and with an invalid choice
\* UserCannotVote, and every authorized vote on a stored proposal outside
\* its window VotingNotActive.
C18_VoteCheckOrder ==
    \A signer \in Address, user \in Address, id \in Ids,
       choice \in Choices, token_balance \in Balances :
        LET r == vote(Env, signer, user, id, choice, token_balance) IN
        /\ r.err = FirstVoteFailure(signer, user, id, choice, token_balance)
        /\ (signer = user /\ id \in StoredIds /\ ~InWindow(id))
              => r.err = VotingNotActive

\* in a proposal's window a user who has voted on it is refused with
\* UserAlreadyVoted when holding no token and naming no valid choice, the
\* other user is refused with UserCannotVote for the same call, and both
\* are refused with VotingNotActive on the proposal that has not started
C18_Witness ==
    \E user \in Address, other \in Address, id \in StoredIds, later \in StoredIds :
        /\ accepted[<<user, id>>] = 1
        /\ accepted[<<other, id>>] = 0
        /\ InWindow(id)
        /\ timestamp < persistent[Proposal(later)].start_time
        /\ vote(Env, user, user, id, "MAYBE", 0).err = UserAlreadyVoted
        /\ vote(Env, other, other, id, "MAYBE", 0).err = UserCannotVote
        /\ vote(Env, other, other, id, "MAYBE", 1).err = InvalidChoice
        /\ vote(Env, user, user, later, "MAYBE", 0).err = VotingNotActive

\* the places of the index whose id has a record that is found
Readable == {i \in DOMAIN proposals_of(Env) :
                has(persistent, Proposal(proposals_of(Env)[i]))}

\* C16: get_governance_details returns one summary for each place of the
\* index whose record is found, in the order of the index, with the id, the
\* record's description and its status at the ledger's time; a place whose
\* record is not found adds nothing and does not fail the call; without an
\* index the list is empty.
C16_ListSkipsMissing ==
    LET index == proposals_of(Env)
        listed == get_governance_details(Env)
    IN
    /\ Len(listed) = Cardinality(Readable)
    /\ \A i \in Readable :
          listed[Cardinality({j \in Readable : j <= i})] =
              [id |-> index[i],
               description |-> persistent[Proposal(index[i])].description,
               status |-> compute_proposal_status(timestamp,
                                                  persistent[Proposal(index[i])])]
    /\ ~has(persistent, Proposals) => listed = << >>

\* the index holds two ids, the record of the first is no longer found and
\* the list is the summary of the second alone
C16_Witness ==
    /\ Len(proposals_of(Env)) = 2
    /\ Readable = {2}
    /\ Len(get_governance_details(Env)) = 1
    /\ get_governance_details(Env)[1].id = proposals_of(Env)[2]

\* a record is found and the index is not: the list is empty
C16_WitnessNoIndex ==
    /\ StoredIds # {}
    /\ ~has(persistent, Proposals)
    /\ get_governance_details(Env) = << >>

\* C19 as stated: the entry of every stored proposal lives at least until
\* end_time + PROPOSAL_TTL_BUFFER, for every start_time and end_time that
\* create_proposal accepts, however far ahead the start_time lies.
C19_ProposalOutlivesWindow ==
    \A id \in StoredIds :
        ~less(live_until[Proposal(id)],
              plus(persistent[Proposal(id)].end_time, Num(0, PROPOSAL_TTL_BUFFER)))

\* the seconds from now to end_time, none when end_time has passed
Remaining(end_time) ==
    IF less(timestamp, end_time) THEN minus(end_time, timestamp) ELSE Num(0, 0)

\* max(remaining + PROPOSAL_TTL_BUFFER, PROPOSALS_TTL_EXTENSION), exactly
ExactTtl(end_time) ==
    LET sum == plus(Remaining(end_time), Num(0, PROPOSAL_TTL_BUFFER)) IN
    IF less(sum, Num(0, PROPOSALS_TTL_EXTENSION))
    THEN Num(0, PROPOSALS_TTL_EXTENSION)
    ELSE sum

\* C20 as stated: for the end_time of every proposal create_proposal has
\* accepted, in a build with overflow checks and in one without,
\* calculate_proposal_ttl does not abort and returns exactly
\* max(remaining + PROPOSAL_TTL_BUFFER, PROPOSALS_TTL_EXTENSION).
C20_TtlExact ==
    \A id \in StoredIds, overflow_checks \in BOOLEAN :
        calculate_proposal_ttl64(Env, persistent[Proposal(id)].end_time,
                                 overflow_checks)
            = [panic |-> FALSE, ttl |-> ExactTtl(persistent[Proposal(id)].end_time)]

\* the shortest extension the source's lifetime policies give an entry
LeastExtension ==
    IF VOTE_TTL_EXTENSION < PROPOSALS_TTL_EXTENSION
    THEN VOTE_TTL_EXTENSION
    ELSE PROPOSALS_TTL_EXTENSION

\* create_proposal leaves the new record living calculate_proposal_ttl and
\* the index PROPOSALS_TTL_EXTENSION from now; vote leaves the record living
\* calculate_proposal_ttl and the voter's map VOTE_TTL_EXTENSION from now
PersistentWritesRefresh ==
    /\ has(instance, Admin) =>
          \A id \in Ids, off \in StartOffsets, duration \in Durations :
              LET end_time == timestamp + off + duration
                  r == create_proposal(Env, TheAdmin, id, "d1",
                                       timestamp + off, end_time)
              IN r.err = Ok =>
                    /\ r.env.live_until[Proposal(id)]
                          = timestamp + calculate_proposal_ttl(Env, end_time)
                    /\ r.env.live_until[Proposals]
                          = timestamp + PROPOSALS_TTL_EXTENSION
    /\ \A user \in Address, id \in Ids, choice \in ValidChoices :
          LET r == vote(Env, user, user, id, choice, 1) IN
          r.err = Ok =>
              /\ r.env.live_until[Proposal(id)]
                    = timestamp + calculate_proposal_ttl(
                                      Env, persistent[Proposal(id)].end_time)
              /\ r.env.live_until[Votes(user)] = timestamp + VOTE_TTL_EXTENSION

\* __constructor and transfer_admin leave the contract instance, where the
\* Admin and the Token they write are kept, living at least the shortest
\* extension from now
InstanceWritesRefresh ==
    /\ \A admin \in Address, token \in TokenAddress :
          LET r == __constructor(Env, admin, token) IN
          r.err = Ok => r.env.live_until[Instance] >= timestamp + LeastExtension
    /\ has(instance, Admin) =>
          \A new_admin \in Address :
              LET r == transfer_admin(Env, TheAdmin, new_admin) IN
              r.err = Ok =>
                  r.env.live_until[Instance] >= timestamp + LeastExtension

\* C21 as stated: every call that writes an entry refreshes the entry's
\* lifetime in the same call: create_proposal the new record and the index,
\* vote the record and the voter's map, __constructor and transfer_admin
\* the entry that holds the Admin and the Token.
C21_EveryWriteRefreshes ==
    PersistentWritesRefresh /\ InstanceWritesRefresh

\* id is in the index that is found
InIndex(id) == \E i \in DOMAIN proposals_of(Env) : proposals_of(Env)[i] = id

\* a step from an index that is found to one that is found leaves it as it
\* is or adds one id at its end, and adds it only with that id's new record
IndexKept ==
    (has(persistent, Proposals) /\ has(persistent', Proposals)) =>
        \/ persistent'[Proposals] = persistent[Proposals]
        \/ \E id \in Ids :
              /\ persistent'[Proposals] = Append(persistent[Proposals], id)
              /\ ~has(persistent, Proposal(id))
              /\ has(persistent', Proposal(id))

\* the id of every record that is found, which create_proposal appended
\* when it stored the record, is in the index when one is found
AppendedKept ==
    has(persistent, Proposals) => \A id \in StoredIds : InIndex(id)

\* C22 as stated: with the clock advancing and entries past their lifetime
\* no longer found, the index changes only by a create_proposal that returns
\* Ok and then by the new id at its end, and an id once appended is in
\* every index found later.
C22_IndexAppendOnly ==
    []AppendedKept /\ [][IndexKept]_vars

\* C23: a vote by a user with a token, for a valid choice, in the window
\* of a stored proposal the user has not voted on, returns Ok whatever the
\* tallies; the tally of the choice goes up by one, or stays at i128::MAX
\* when it stands there; the other two tallies stay and the user's map
\* holds the id.
C23_TallySaturates ==
    \A user \in Address, id \in StoredIds, choice \in ValidChoices :
        (InWindow(id) /\ ~has(votes_of(Env, user), id)) =>
            LET old == persistent[Proposal(id)]
                r == vote128(Env, user, user, id, choice, 1)
                new == r.env.persistent[Proposal(id)]
            IN
            /\ r.err = Ok
            /\ TallyOf(new, choice) =
                  IF TallyOf(old, choice) = I128_MAX
                  THEN I128_MAX
                  ELSE plus(TallyOf(old, choice), I128(1))
            /\ ~negative(TallyOf(new, choice))
            /\ \A other \in ValidChoices \ {choice} :
                  TallyOf(new, other) = TallyOf(old, other)
            /\ has(votes_of(r.env, user), id)

\* a vote of alice and a vote of bob have been accepted on a proposal whose
\* total_against stands at i128::MAX, where both votes were cast
C23_Witness ==
    \E id \in StoredIds :
        /\ accepted[<<"alice", id>>] = 1
        /\ accepted[<<"bob", id>>] = 1
        /\ has(votes_of(Env, "alice"), id)
        /\ has(votes_of(Env, "bob"), id)
        /\ persistent[Proposal(id)].total_against = I128_MAX
        /\ persistent[Proposal(id)].total_for = I128(0)
        /\ persistent[Proposal(id)].total_abstain = I128(0)

\* the users whose stored map holds id
RecordedVoters(id) == {user \in Address : has(votes_of(Env, user), id)}

\* C24: for every stored proposal the three tallies add up to the number of
\* users whose map holds its id, each tally is the number of accepted votes
\* at most, and the users whose map holds the id are those whose vote on it
\* was accepted; no map holds the id of a proposal that is not stored.
C24_TallyIntegrity ==
    \A id \in Ids :
        IF id \in StoredIds
        THEN LET proposal == persistent[Proposal(id)] IN
             /\ Tally(proposal) = Cardinality(RecordedVoters(id))
             /\ RecordedVoters(id) = Voters(id)
             /\ proposal.total_for >= 0
             /\ proposal.total_against >= 0
             /\ proposal.total_abstain >= 0
        ELSE RecordedVoters(id) = {}

\* both users' maps hold the id of a proposal with one vote for and one
\* abstention, and the other proposal is stored without a vote
C24_Witness ==
    \E id \in StoredIds, other \in StoredIds :
        /\ RecordedVoters(id) = Address
        /\ persistent[Proposal(id)].total_for = 1
        /\ persistent[Proposal(id)].total_abstain = 1
        /\ RecordedVoters(other) = {}
        /\ Tally(persistent[Proposal(other)]) = 0

\* the three tallies of a record
Totals(proposal) ==
    <<proposal.total_for, proposal.total_against, proposal.total_abstain>>

\* the stored proposals whose end_time has passed
EndedIds == {id \in StoredIds : timestamp > persistent[Proposal(id)].end_time}

\* no call of vote or create_proposal on a proposal whose end_time has
\* passed changes its tallies
EndedTalliesUntouched ==
    \A id \in EndedIds :
        LET proposal == persistent[Proposal(id)] IN
        /\ \A user \in Address, choice \in Choices, token_balance \in Balances :
              LET r == vote(Env, user, user, id, choice, token_balance) IN
              /\ r.err = VotingNotActive
              /\ Totals(r.env.persistent[Proposal(id)]) = Totals(proposal)
        /\ \A off \in StartOffsets, duration \in Durations :
              LET r == create_proposal(Env, TheAdmin, id, "d2", timestamp + off,
                                       timestamp + off + duration)
              IN
              /\ r.err # Ok
              /\ Totals(r.env.persistent[Proposal(id)]) = Totals(proposal)

\* a step does not turn the clock back, and it leaves a proposal whose
\* end_time has passed stored with its end_time and its tallies
EndedTalliesKept ==
    /\ timestamp' >= timestamp
    /\ \A id \in EndedIds :
          /\ has(persistent', Proposal(id))
          /\ persistent'[Proposal(id)].end_time = persistent[Proposal(id)].end_time
          /\ Totals(persistent'[Proposal(id)]) = Totals(persistent[Proposal(id)])

\* C25: the clock never goes back, and from the first state with now >
\* end_time of a stored proposal on, no step and no call of vote or
\* create_proposal changes its total_for, total_against or total_abstain.
C25_TalliesFinal ==
    []EndedTalliesUntouched /\ [][EndedTalliesKept]_vars

\* the end_time of a proposal with one accepted vote has passed, the other
\* user holds a token and is refused with VotingNotActive, and the other
\* proposal is still open
C25_Witness ==
    \E id \in EndedIds, other \in StoredIds \ EndedIds, user \in Address :
        /\ Tally(persistent[Proposal(id)]) = 1
        /\ accepted[<<user, id>>] = 0
        /\ vote(Env, user, user, id, VOTE_FOR, 1).err = VotingNotActive
        /\ InWindow(other)
        /\ vote(Env, user, user, other, VOTE_FOR, 1).err = Ok

\* C26 as stated: with the clock advancing and entries past their lifetime
\* no longer found, the id of every record get_proposal_details returns is
\* in the index that get_governance_details and get_user_details read.
C26_ReadableIsListed ==
    \A id \in Ids :
        get_proposal_details(Env, id).err = Ok => InIndex(id)

\* C27: with the clock advancing and entries past their lifetime no longer
\* found, no user has two accepted votes on one proposal record: up to the
\* end_time of a record a user has voted on, the user's map is stored with
\* the id and lives at least until that end_time, and at every time every
\* vote of the user on the record is refused.
C27_ExpiryKeepsVoteClosed ==
    \A user \in Address, id \in Ids :
        /\ accepted[<<user, id>>] <= 1
        /\ (accepted[<<user, id>>] = 1 /\ id \in StoredIds) =>
              /\ timestamp <= persistent[Proposal(id)].end_time =>
                    /\ has(votes_of(Env, user), id)
                    /\ live_until[Votes(user)] >= persistent[Proposal(id)].end_time
              /\ \A choice \in Choices, token_balance \in Balances :
                    vote(Env, user, user, id, choice, token_balance).err
                        \in {UserAlreadyVoted, VotingNotActive}

\* a user's vote on a record has been accepted, the record is still found
\* and the user's map no longer is: the window has closed and a vote of the
\* user with a token is refused
C27_Witness ==
    \E user \in Address, id \in StoredIds :
        /\ accepted[<<user, id>>] = 1
        /\ Tally(persistent[Proposal(id)]) = 1
        /\ ~has(persistent, Votes(user))
        /\ timestamp > persistent[Proposal(id)].end_time
        /\ vote(Env, user, user, id, VOTE_FOR, 1).err = VotingNotActive

====
